---- MODULE Spec2Model ----
(***************************************************************************)
(* A model of the extraction-and-consolidation engine of etl/fetch_sema.py *)
(* (balneabilidade): status and date canonicalization, the heuristic       *)
(* cascade of parse_pdf_text with its history-mining loop, consolidate,    *)
(* load_geocodes / attach_geocodes, to_points_json and the document loop   *)
(* of run.                                                                 *)
(*                                                                         *)
(* A Python str is a sequence of one-character strings, None is the empty  *)
(* tuple and a present optional value x is <<x>>.  A page text is a        *)
(* sequence of whitespace-separated tokens; the regular expressions of     *)
(* parse_pdf_text are evaluated on tokens, with the character classes      *)
(* ([^P], [^S], the letter class of the Status group) evaluated on the     *)
(* characters of each token.                                               *)
(***************************************************************************)
EXTENDS Integers, Sequences, FiniteSets, TLC

VARIABLES pc, text, results, origin, ran, idx, anchors, rows, source_url, agg, agg2,
          points, points2, items, all_rows, item_k, from_file, web_source_url, lines,
          geos, tok, cand

vars == <<pc, text, results, origin, ran, idx, anchors, rows, source_url, agg, agg2,
          points, points2, items, all_rows, item_k, from_file, web_source_url, lines,
          geos, tok, cand>>

parseVars == <<text, results, origin, ran, idx, anchors>>

consVars == <<rows, source_url, agg, agg2, points, points2>>

runVars == <<items, all_rows, item_k, from_file, web_source_url>>

geoVars == <<lines, geos>>

statusVars == <<tok, cand>>

(***************************************************************************)
(* Strings                                                                 *)
(***************************************************************************)
None == <<>>

Some(x) == <<x>>

\* Python truthiness of an Optional[str]: None and '' are falsy
Truthy(o) == o # None /\ o[1] # <<>>

\* Python's (a or b) on Optional[str] values
PyOr(a, b) == IF Truthy(a) THEN a ELSE b

LowerChars == <<"a", "b", "c", "d", "e", "f", "g", "h", "i", "j", "k", "l", "m",
                "n", "o", "p", "q", "r", "s", "t", "u", "v", "w", "x", "y", "z",
                "ó", "ê", "ç", "í">>

UpperChars == <<"A", "B", "C", "D", "E", "F", "G", "H", "I", "J", "K", "L", "M",
                "N", "O", "P", "Q", "R", "S", "T", "U", "V", "W", "X", "Y", "Z",
                "Ó", "Ê", "Ç", "Í">>

\* str.upper() on one character
UpperChar(c) ==
    IF \E k \in DOMAIN LowerChars : LowerChars[k] = c
    THEN UpperChars[CHOOSE k \in DOMAIN LowerChars : LowerChars[k] = c]
    ELSE c

\* str.upper()
Upper(s) == [k \in DOMAIN s |-> UpperChar(s[k])]

AccentedChars == <<"Ó", "ó", "Ê", "ê", "Ç", "ç", "Í", "í">>

BaseChars == <<"O", "o", "E", "e", "C", "c", "I", "i">>

\* NFD decomposition of one character with the combining mark (category Mn) dropped
FoldChar(c) ==
    IF \E k \in DOMAIN AccentedChars : AccentedChars[k] = c
    THEN BaseChars[CHOOSE k \in DOMAIN AccentedChars : AccentedChars[k] = c]
    ELSE c

strip_accents(txt) == [k \in DOMAIN txt |-> FoldChar(txt[k])]

\* The character U+0060 (grave accent), which a TLA+ string cannot hold
Grave == "U+0060"

QuoteChars == {"\"", "'", Grave}

\* the three chained replace calls that delete the quote characters
StripQuotes(s) == SelectSeq(s, LAMBDA c : c \notin QuoteChars)

\* Python's (sub in s)
Contains(sub, s) ==
    \E k \in 0..(Len(s) - Len(sub)) : SubSeq(s, k + 1, k + Len(sub)) = sub

IMPROPRIO == <<"I", "M", "P", "R", "O", "P", "R", "I", "O">>

PROPRIO == <<"P", "R", "O", "P", "R", "I", "O">>

\* 'IMPRÓPRIO', the canonical unfit value
UNFIT == <<"I", "M", "P", "R", "Ó", "P", "R", "I", "O">>

\* 'PRÓPRIO', the canonical fit value
FIT == <<"P", "R", "Ó", "P", "R", "I", "O">>

\* 'DESCONHECIDO', the canonical unknown value
UNKNOWN == <<"D", "E", "S", "C", "O", "N", "H", "E", "C", "I", "D", "O">>

\* normalize_status_text with the PROPRIO test ahead of the IMPROPRIO test
normalize_status_text_fit_first(s) ==
    LET raw    == StripQuotes(Upper(IF s = None THEN <<>> ELSE s[1]))
        ascii_ == strip_accents(raw)
    IN  IF Contains(PROPRIO, ascii_) THEN FIT
        ELSE IF Contains(IMPROPRIO, ascii_) THEN UNFIT
        ELSE IF raw # <<>> THEN raw
        ELSE UNKNOWN

\* The parser's status canonicalization; s is an Optional[str]
normalize_status_text(s) ==
    LET raw    == StripQuotes(Upper(IF s = None THEN <<>> ELSE s[1]))
        ascii_ == strip_accents(raw)
    IN  IF Contains(IMPROPRIO, ascii_) THEN UNFIT
        ELSE IF Contains(PROPRIO, ascii_) THEN FIT
        ELSE IF raw # <<>> THEN raw
        ELSE UNKNOWN

\* The re-canonicalization inlined in consolidate; status is a str
ConsolidateStatus(status) ==
    LET raw    == StripQuotes(Upper(status))
        ascii_ == strip_accents(raw)
    IN  IF Contains(IMPROPRIO, ascii_) THEN UNFIT
        ELSE IF Contains(PROPRIO, ascii_) THEN FIT
        ELSE status

(***************************************************************************)
(* Dates                                                                   *)
(***************************************************************************)
Digits == <<"0", "1", "2", "3", "4", "5", "6", "7", "8", "9">>

IsDigit(c) == \E k \in DOMAIN Digits : Digits[k] = c

DigitVal(c) == (CHOOSE k \in DOMAIN Digits : Digits[k] = c) - 1

AllDigits(s) == \A k \in DOMAIN s : IsDigit(s[k])

RECURSIVE Num(_)
\* int() of a string of decimal digits
Num(s) ==
    IF s = <<>> THEN 0
    ELSE 10 * Num(SubSeq(s, 1, Len(s) - 1)) + DigitVal(s[Len(s)])

Pad2(n) == <<Digits[(n \div 10) + 1], Digits[(n % 10) + 1]>>

Pad4(n) == Pad2(n \div 100) \o Pad2(n % 100)

RECURSIVE Split(_, _)
\* s.split(sep) for a one-character separator
Split(s, sep) ==
    IF \E k \in DOMAIN s : s[k] = sep
    THEN LET k == CHOOSE j \in DOMAIN s : s[j] = sep /\ \A h \in 1..(j - 1) : s[h] # sep
         IN  <<SubSeq(s, 1, k - 1)>> \o Split(SubSeq(s, k + 1, Len(s)), sep)
    ELSE <<s>>

IsLeap(y) == (y % 4 = 0 /\ y % 100 # 0) \/ y % 400 = 0

DaysIn(m, y) ==
    IF m = 2 THEN (IF IsLeap(y) THEN 29 ELSE 28)
    ELSE IF m \in {4, 6, 9, 11} THEN 30 ELSE 31

\* datetime.strptime(s, '%d/%m/%Y') succeeds: one or two digits for the day
\* and the month, four for the year, and a date of the calendar
ValidDateBR(s) ==
    LET f == Split(s, "/")
    IN  /\ Len(f) = 3
        /\ Len(f[1]) \in {1, 2} /\ AllDigits(f[1])
        /\ Len(f[2]) \in {1, 2} /\ AllDigits(f[2])
        /\ Len(f[3]) = 4 /\ AllDigits(f[3])
        /\ Num(f[3]) >= 1
        /\ Num(f[2]) \in 1..12
        /\ Num(f[1]) \in 1..DaysIn(Num(f[2]), Num(f[3]))

\* strftime('%Y-%m-%d') of the parsed date (years of four digits)
FormatISO(s) ==
    LET f == Split(s, "/")
    IN  Pad4(Num(f[3])) \o <<"-">> \o Pad2(Num(f[2])) \o <<"-">> \o Pad2(Num(f[1]))

parse_date_br(s) == IF ValidDateBR(s) THEN FormatISO(s) ELSE s

\* A string of the shape YYYY-MM-DD naming a date of the calendar
IsISODate(s) ==
    /\ Len(s) = 10
    /\ s[5] = "-" /\ s[8] = "-"
    /\ AllDigits(SubSeq(s, 1, 4)) /\ AllDigits(SubSeq(s, 6, 7)) /\ AllDigits(SubSeq(s, 9, 10))
    /\ Num(SubSeq(s, 1, 4)) >= 1
    /\ Num(SubSeq(s, 6, 7)) \in 1..12
    /\ Num(SubSeq(s, 9, 10)) \in 1..DaysIn(Num(SubSeq(s, 6, 7)), Num(SubSeq(s, 1, 4)))

(***************************************************************************)
(* consolidate                                                             *)
(***************************************************************************)
\* Station(code=code): every other field at its dataclass default
Station(code) ==
    [code |-> code, beach |-> None, reference |-> None, city |-> None,
     history |-> <<>>, source_laudo |-> None, lat |-> None, lng |-> None]

Sample(date, status) == [date |-> date, status |-> status]

\* A loop body in which the texts of a later row replace those of the station
ConsolidateRow_last(a, row, url) ==
    LET code == Upper(row.code)
    IN  IF code = <<>> THEN a
        ELSE LET s        == IF code \in DOMAIN a THEN a[code] ELSE Station(code)
                 date_iso == parse_date_br(row.date)
                 status   == ConsolidateStatus(row.status)
                 s2       == [s EXCEPT
                                !.beach = PyOr(Some(row.beach), s.beach),
                                !.reference = PyOr(Some(row.reference), s.reference),
                                !.history = IF date_iso # <<>> /\ status # <<>>
                                            THEN Append(s.history, Sample(date_iso, status))
                                            ELSE s.history,
                                !.source_laudo = PyOr(s.source_laudo, Some(url))]
             IN  [c \in DOMAIN a \cup {code} |-> IF c = code THEN s2 ELSE a[c]]

\* A loop body that keeps only the sample of the latest row of a station
ConsolidateRow_latest(a, row, url) ==
    LET code == Upper(row.code)
    IN  IF code = <<>> THEN a
        ELSE LET s        == IF code \in DOMAIN a THEN a[code] ELSE Station(code)
                 date_iso == parse_date_br(row.date)
                 status   == ConsolidateStatus(row.status)
                 s2       == [s EXCEPT
                                !.beach = PyOr(s.beach, Some(row.beach)),
                                !.reference = PyOr(s.reference, Some(row.reference)),
                                !.history = IF date_iso # <<>> /\ status # <<>>
                                            THEN <<Sample(date_iso, status)>>
                                            ELSE s.history,
                                !.source_laudo = PyOr(s.source_laudo, Some(url))]
             IN  [c \in DOMAIN a \cup {code} |-> IF c = code THEN s2 ELSE a[c]]

\* The body of consolidate's loop for one row
ConsolidateRow(a, row, url) ==
    LET code == Upper(row.code)
    IN  IF code = <<>> THEN a
        ELSE LET s        == IF code \in DOMAIN a THEN a[code] ELSE Station(code)
                 date_iso == parse_date_br(row.date)
                 status   == ConsolidateStatus(row.status)
                 s2       == [s EXCEPT
                                !.beach = PyOr(s.beach, Some(row.beach)),
                                !.reference = PyOr(s.reference, Some(row.reference)),
                                !.history = IF date_iso # <<>> /\ status # <<>>
                                            THEN Append(s.history, Sample(date_iso, status))
                                            ELSE s.history,
                                !.source_laudo = PyOr(s.source_laudo, Some(url))]
             IN  [c \in DOMAIN a \cup {code} |-> IF c = code THEN s2 ELSE a[c]]

RECURSIVE ConsolidateFrom(_, _, _)
ConsolidateFrom(a, stations_raw, url) ==
    IF stations_raw = <<>> THEN a
    ELSE ConsolidateFrom(ConsolidateRow(a, Head(stations_raw), url), Tail(stations_raw), url)

\* An empty dict
EmptyDict == [c \in {} |-> None]

consolidate(stations_raw, url) == ConsolidateFrom(EmptyDict, stations_raw, url)

Row(code, beach, reference, status, date) ==
    [code |-> code, beach |-> beach, reference |-> reference, status |-> status, date |-> date]

(***************************************************************************)
(* Inputs                                                                  *)
(***************************************************************************)
P1 == <<"P", "1">>

P2 == <<"P", "2">>

\* '01/09/2025'
D_0109 == <<"0", "1", "/", "0", "9", "/", "2", "0", "2", "5">>

\* '12/03/2024'
D_1203 == <<"1", "2", "/", "0", "3", "/", "2", "0", "2", "4">>

\* '31/02/2025', of the shape DD/MM/YYYY and not a date
D_3102 == <<"3", "1", "/", "0", "2", "/", "2", "0", "2", "5">>

URL1 == <<"u", "1">>

URL2 == <<"u", "2">>

RECURSIVE Flatten(_)
Flatten(ss) == IF ss = <<>> THEN <<>> ELSE Head(ss) \o Flatten(Tail(ss))

\* The number of pieces a status token is made of, at most
MaxPieces == 4

StatusPieces ==
    { <<"I", "M">>, <<"P", "R">>, <<"p", "r">>, <<"Ó">>, <<"O">>, <<"ó">>,
      <<"P", "R", "I", "O">>, <<"'">> }

StatusTokens ==
    { Flatten(ps) : ps \in UNION { [1..n -> StatusPieces] : n \in 0..MaxPieces } }

(***************************************************************************)
(* to_points_json                                                          *)
(***************************************************************************)
\* The characters of the model in code point order
CodePoints ==
    <<" ", "'", "-", ".", "/", "0", "1", "2", "3", "4", "5", "6", "7", "8", "9", ":",
      "A", "B", "C", "D", "E", "F", "G", "H", "I", "J", "K", "L", "M", "N", "O",
      "P", "Q", "R", "S", "T", "U", "V", "W", "X", "Y", "Z",
      "a", "b", "c", "d", "e", "f", "g", "h", "i", "j", "k", "l", "m", "n", "o",
      "p", "q", "r", "s", "t", "u", "v", "w", "x", "y", "z",
      "Ç", "Ê", "Í", "Ó", "ç", "ê", "í", "ó">>

Ord(c) == CHOOSE k \in DOMAIN CodePoints : CodePoints[k] = c

\* Python's a < b on str: the first differing character decides, a proper prefix is less
StrLess(a, b) ==
    \E k \in 1..(Len(b)) :
        /\ \A j \in 1..(k - 1) : j <= Len(a) /\ a[j] = b[j]
        /\ \/ k = Len(a) + 1
           \/ k <= Len(a) /\ Ord(a[k]) < Ord(b[k])

StrLeq(a, b) == a = b \/ StrLess(a, b)

\* {(h.date, h.status) for h in s.history}
HistSet(s) == { <<s.history[k].date, s.history[k].status>> : k \in DOMAIN s.history }

RECURSIVE InsertByDate(_, _)
\* x put into the date-sorted sequence q behind every element of a date not greater
InsertByDate(q, x) ==
    IF q = <<>> THEN <<x>>
    ELSE IF StrLeq(Head(q)[1], x[1]) THEN <<Head(q)>> \o InsertByDate(Tail(q), x)
    ELSE <<x>> \o q

RECURSIVE SortByDate(_)
SortByDate(h) ==
    IF h = <<>> THEN <<>>
    ELSE InsertByDate(SortByDate(SubSeq(h, 1, Len(h) - 1)),
                      <<h[Len(h)].date, h[Len(h)].status>>)

\* HistSorted with the history sorted as the list it is, equal pairs kept
HistSorted_list(s) == { SortByDate(s.history) }

\* The orders sorted(..., key=date) can give the unique pairs: sorted is stable,
\* and the iteration order of a set of tuples of str is not fixed (str hashes
\* are salted per process), so pairs of one date come out in any order
HistSorted(s) ==
    LET S == HistSet(s)
        n == Cardinality(S)
    IN  { h \in [1..n -> S] :
            /\ \A x \in S : \E k \in 1..n : h[k] = x
            /\ \A k \in 1..(n - 1) : StrLeq(h[k][1], h[k + 1][1]) }

\* One record of the output for station s with its history in the order hs
Point(s, hs) ==
    [code |-> s.code, beach |-> s.beach, reference |-> s.reference, city |-> s.city,
     lat |-> s.lat, lng |-> s.lng,
     latest |-> IF hs # <<>> THEN Some(Sample(hs[Len(hs)][1], hs[Len(hs)][2])) ELSE None,
     history |-> [k \in DOMAIN hs |-> Sample(hs[k][1], hs[k][2])],
     source_laudo |-> s.source_laudo]

\* The keys of a dict in the order of the numbers behind the P
SortedCodes_numeric(a) ==
    CHOOSE q \in [1..Cardinality(DOMAIN a) -> DOMAIN a] :
        /\ \A c \in DOMAIN a : \E k \in DOMAIN q : q[k] = c
        /\ \A k \in 1..(Len(q) - 1) : Num(Tail(q[k])) < Num(Tail(q[k + 1]))

\* The keys of a dict in ascending order: out.sort(key=code)
SortedCodes(a) ==
    CHOOSE q \in [1..Cardinality(DOMAIN a) -> DOMAIN a] :
        /\ \A c \in DOMAIN a : \E k \in DOMAIN q : q[k] = c
        /\ \A k \in 1..(Len(q) - 1) : StrLess(q[k], q[k + 1])

RECURSIVE PointsFrom(_, _)
PointsFrom(a, codes) ==
    IF codes = <<>> THEN {<<>>}
    ELSE { <<Point(a[Head(codes)], hs)>> \o rest :
             hs \in HistSorted(a[Head(codes)]), rest \in PointsFrom(a, Tail(codes)) }

\* The outputs to_points_json can return for the aggregate a
to_points_json(a) == PointsFrom(a, SortedCodes(a))

(***************************************************************************)
(* SpecStatus: one status token through the parser's canonicalization and  *)
(* through consolidate                                                     *)
(***************************************************************************)
ParseIdle ==
    text = <<>> /\ results = <<>> /\ origin = <<>> /\ ran = <<>> /\ idx = 0 /\ anchors = 0

ConsIdle ==
    /\ rows = <<>> /\ source_url = URL1 /\ agg = EmptyDict /\ agg2 = EmptyDict
    /\ points = <<>> /\ points2 = <<>>

RunIdle ==
    /\ items = <<>> /\ all_rows = <<>> /\ item_k = 0
    /\ from_file = FALSE /\ web_source_url = None

GeoIdle == lines = <<>> /\ geos = EmptyDict

StatusIdle == tok = None /\ cand = None

InitStatus ==
    /\ pc = "start"
    /\ ParseIdle /\ ConsIdle /\ RunIdle /\ GeoIdle
    /\ cand = None
    /\ tok \in {None} \cup { Some(t) : t \in StatusTokens }

\* The parser canonicalizes the token it captured (None when it captured nothing)
\* and puts it in a candidate
StatusParsed ==
    /\ pc = "start"
    /\ cand' = Some(Row(P1, <<>>, <<>>, normalize_status_text(tok), D_0109))
    /\ pc' = "parsed"
    /\ UNCHANGED <<parseVars, consVars, runVars, geoVars, tok>>

\* A candidate carrying the token as it is (row.get('status') or '')
StatusRaw ==
    /\ pc = "start"
    /\ cand' = Some(Row(P1, <<>>, <<>>, IF tok = None THEN <<>> ELSE tok[1], D_0109))
    /\ pc' = "raw"
    /\ UNCHANGED <<parseVars, consVars, runVars, geoVars, tok>>

StatusConsolidate ==
    /\ pc \in {"parsed", "raw"}
    /\ rows' = cand
    /\ agg' = consolidate(cand, source_url)
    /\ pc' = IF pc = "parsed" THEN "parsed_done" ELSE "raw_done"
    /\ UNCHANGED <<parseVars, source_url, agg2, points, points2, runVars, geoVars,
                   statusVars>>

NextStatus == StatusParsed \/ StatusRaw \/ StatusConsolidate

SpecStatus == InitStatus /\ [][NextStatus]_vars

\* The folded form of a status token: uppercased, quote-stripped, accent-folded
Folded(t) == strip_accents(StripQuotes(Upper(IF t = None THEN <<>> ELSE t[1])))

\* C5: a status token whose folded form contains IMPROPRIO is canonicalized to
\* the unfit value by the parser and by consolidate, and the fit value comes
\* out only of a folded form that contains PROPRIO and not IMPROPRIO
C5_UnfitNeverFit ==
    /\ pc = "parsed" =>
         /\ Contains(IMPROPRIO, Folded(tok)) => cand[1].status = UNFIT
         /\ cand[1].status = FIT =>
              Contains(PROPRIO, Folded(tok)) /\ ~Contains(IMPROPRIO, Folded(tok))
    /\ pc = "raw_done" =>
         /\ Contains(IMPROPRIO, Folded(tok)) =>
              /\ P1 \in DOMAIN agg
              /\ Len(agg[P1].history) = 1
              /\ agg[P1].history[1].status = UNFIT
         /\ \A c \in DOMAIN agg : \A h \in DOMAIN agg[c].history :
              agg[c].history[h].status = FIT =>
                Contains(PROPRIO, Folded(tok)) /\ ~Contains(IMPROPRIO, Folded(tok))

\* An accented, lower-case token holding IMPROPRIO went through consolidate
C5_Witness ==
    /\ pc = "raw_done"
    /\ tok = Some(<<"I", "M", "p", "r", "ó", "P", "R", "I", "O">>)
    /\ agg[P1].history[1].status = UNFIT

(***************************************************************************)
(* SpecConsolidate: a candidate list through consolidate, the same list    *)
(* fed twice, and the projection of both                                   *)
(***************************************************************************)
\* The number of candidates of a list, at most
MaxRows == 3

BEACH_A == <<"A">>

BEACH_B == <<"B">>

REF_R == <<"R">>

\* '2025-09-01', the date of a history-mined candidate
ISO_0109 == <<"2", "0", "2", "5", "-", "0", "9", "-", "0", "1">>

CandidateRows ==
    { Row(c, b, <<>>, FIT, d) : c \in {P1, P2}, b \in {<<>>, BEACH_A}, d \in {D_0109, D_3102} }
    \cup
    { Row(<<"p", "1">>, BEACH_B, REF_R, <<"b", "o", "a">>, ISO_0109),
      Row(P1, BEACH_B, <<>>, <<"i", "m", "p", "r", "ó", "p", "r", "i", "o">>, D_1203),
      Row(P2, <<>>, REF_R, FIT, <<>>),
      Row(P1, <<>>, <<>>, <<>>, D_0109),
      Row(<<>>, BEACH_A, <<>>, FIT, D_0109) }

InitConsolidate ==
    /\ pc = "start"
    /\ ParseIdle /\ RunIdle /\ GeoIdle /\ StatusIdle
    /\ source_url = URL1 /\ agg = EmptyDict /\ agg2 = EmptyDict
    /\ points = <<>> /\ points2 = <<>>
    /\ rows \in UNION { [1..n -> CandidateRows] : n \in 0..MaxRows }

Consolidate ==
    /\ pc = "start"
    /\ agg' = consolidate(rows, source_url)
    /\ pc' = "consolidated"
    /\ UNCHANGED <<parseVars, rows, source_url, agg2, points, points2, runVars, geoVars,
                   statusVars>>

\* The same candidates ingested a second time: the list followed by itself
Reingest ==
    /\ pc = "consolidated"
    /\ agg2' = consolidate(rows \o rows, source_url)
    /\ pc' = "reingested"
    /\ UNCHANGED <<parseVars, rows, source_url, agg, points, points2, runVars, geoVars,
                   statusVars>>

Project ==
    /\ pc = "reingested"
    /\ points' \in to_points_json(agg)
    /\ points2' \in to_points_json(agg2)
    /\ pc' = "projected"
    /\ UNCHANGED <<parseVars, rows, source_url, agg, agg2, runVars, geoVars, statusVars>>

NextConsolidate == Consolidate \/ Reingest \/ Project

SpecConsolidate == InitConsolidate /\ [][NextConsolidate]_vars

NoDuplicates(h) == \A j, k \in DOMAIN h : j # k => h[j] # h[k]

\* C2 as claimed: a candidate whose date is not a valid DD/MM/YYYY date adds no
\* sample, so every sample of a history carries an ISO date
C2_Claim ==
    pc = "consolidated" =>
        \A c \in DOMAIN agg : \A k \in DOMAIN agg[c].history :
            IsISODate(agg[c].history[k].date)

T_PRAIA == <<"P", "r", "a", "i", "a", ":">>

T_REF == <<"R", "e", "f", ".", ":">>

T_DATA == <<"D", "a", "t", "a">>

T_DA == <<"d", "a">>

T_COLETA == <<"c", "o", "l", "e", "t", "a", ":">>

T_STATUS == <<"S", "t", "a", "t", "u", "s", ":">>

T_DASH == <<"-">>

T_PERIODO == <<"p", "e", "r", "í", "o", "d", "o">>

T_DE == <<"d", "e">>

T_A == <<"a">>

W_FAROL == <<"F", "a", "r", "o", "l">>

W_BOA == <<"B", "O", "A">>

W_improprio == <<"i", "m", "p", "r", "ó", "p", "r", "i", "o">>

LOW_P1 == <<"p", "1">>

IsLetter(c) ==
    \/ \E k \in DOMAIN UpperChars : UpperChars[k] = c
    \/ \E k \in DOMAIN LowerChars : LowerChars[k] = c

\* Tokens equal under re.IGNORECASE
SameFold(a, b) == Upper(a) = Upper(b)

RECURSIVE JoinSp(_)
\* ' '.join(toks)
JoinSp(toks) ==
    IF toks = <<>> THEN <<>>
    ELSE IF Len(toks) = 1 THEN toks[1]
    ELSE toks[1] \o <<" ">> \o JoinSp(Tail(toks))

RECURSIVE LStrip(_, _)
LStrip(s, chars) ==
    IF s # <<>> /\ s[1] \in chars THEN LStrip(Tail(s), chars) ELSE s

RECURSIVE RStrip(_, _)
RStrip(s, chars) ==
    IF s # <<>> /\ s[Len(s)] \in chars THEN RStrip(SubSeq(s, 1, Len(s) - 1), chars) ELSE s

\* s.strip(chars)
Strip(s, chars) == RStrip(LStrip(s, chars), chars)

\* The characters of strip(' :-')
FieldStrip == {" ", ":", "-"}

\* A match of \d{2}/\d{2}/\d{4} that is a whole token
IsDateToken(t) ==
    /\ Len(t) = 10
    /\ t[3] = "/" /\ t[6] = "/"
    /\ \A k \in {1, 2, 4, 5, 7, 8, 9, 10} : IsDigit(t[k])

\* A match of P\d{1,3} that is a whole token; fold for re.IGNORECASE
IsCode(t, fold) ==
    /\ Len(t) \in 2..4
    /\ IF fold THEN UpperChar(t[1]) = "P" ELSE t[1] = "P"
    /\ AllDigits(Tail(t))

\* The least element of a non-empty set of numbers
Min(S) == CHOOSE k \in S : \A j \in S : k <= j

Max(S) == CHOOSE k \in S : \A j \in S : k >= j

\* The label 'Data da coleta:' begins at token k and a date follows it
DateLabelAt(toks, k) ==
    /\ k + 3 <= Len(toks)
    /\ SameFold(toks[k], T_DATA) /\ SameFold(toks[k + 1], T_DA)
    /\ SameFold(toks[k + 2], T_COLETA)
    /\ IsDateToken(toks[k + 3])

\* laudo_to: group 2 of the first 'período de D a D'
LaudoTo(toks) ==
    LET hit == { k \in 1..(Len(toks) - 4) :
                   /\ SameFold(toks[k], T_PERIODO) /\ SameFold(toks[k + 1], T_DE)
                   /\ IsDateToken(toks[k + 2]) /\ SameFold(toks[k + 3], T_A)
                   /\ IsDateToken(toks[k + 4]) }
    IN  IF hit = {} THEN None ELSE Some(toks[Min(hit) + 4])

\* find_line with a (.+)$ pattern behind a label: the rest of the block behind the
\* first occurrence of the label, stripped; None when the block has no such label
FindLine(block, label) ==
    LET hit == { k \in DOMAIN block : SameFold(block[k], label) }
    IN  IF hit = {} THEN None
        ELSE Some(Strip(JoinSp(SubSeq(block, Min(hit) + 1, Len(block))), FieldStrip))

\* find_line for 'Data da coleta: DD/MM/YYYY'
FindDate(block) ==
    LET hit == { k \in DOMAIN block : DateLabelAt(block, k) }
    IN  IF hit = {} THEN None ELSE Some(block[Min(hit) + 3])

\* The words of heuristic 1's status pattern
H1StatusWords ==
    { UNFIT, IMPROPRIO, FIT, PROPRIO, <<"I", "M", "P", "R", "P", "R", "I", "O">> }

\* status_m: the first standalone status word of the block, or None
FindStatus(block) ==
    LET hit == { k \in DOMAIN block : Upper(block[k]) \in H1StatusWords }
    IN  IF hit = {} THEN None ELSE Some(block[Min(hit)])

\* The test heuristic 1 makes before it appends: if status
H1Emits(status) == status # <<>>

\* The candidate of one block of heuristic 1, or no candidate
H1Block(code, block, laudo_to) ==
    LET beach     == FindLine(block, T_PRAIA)
        reference == FindLine(block, T_REF)
        date      == PyOr(PyOr(FindDate(block), laudo_to), Some(<<>>))
        status    == normalize_status_text(FindStatus(block))
    IN  IF H1Emits(status)
        THEN <<Row(Upper(code), PyOr(beach, Some(<<>>))[1], PyOr(reference, Some(<<>>))[1],
                   status, date[1])>>
        ELSE <<>>

\* The chunk re.split gives behind the code at token k: up to the next code
BlockAt(toks, k) ==
    LET later == { j \in (k + 1)..Len(toks) : IsCode(toks[j], FALSE) }
    IN  SubSeq(toks, k + 1, IF later = {} THEN Len(toks) ELSE Min(later) - 1)

RECURSIVE H1From(_, _, _)
\* Heuristic 1 from token k on: the text split at the codes, one block per code
H1From(toks, k, laudo_to) ==
    IF k > Len(toks) THEN <<>>
    ELSE IF ~IsCode(toks[k], FALSE) THEN H1From(toks, k + 1, laudo_to)
    ELSE LET block == BlockAt(toks, k)
         IN  (IF block = <<>> THEN <<>> ELSE H1Block(toks[k], block, laudo_to))
             \o H1From(toks, k + 1 + Len(block), laudo_to)

Heuristic1(toks) == H1From(toks, 1, LaudoTo(toks))

\* The token holds the letter ch in either case: the complement of [^P] or [^S]
\* under re.IGNORECASE
HasChar(t, ch) == \E k \in DOMAIN t : UpperChar(t[k]) = ch

\* The letters a token begins with: what the Status group captures of it
LettersPrefix(t) ==
    LET non == { k \in DOMAIN t : ~IsLetter(t[k]) }
    IN  IF non = {} THEN t ELSE SubSeq(t, 1, Min(non) - 1)

\* The optional 'Data da coleta:' and the optional date of heuristic 2 at token k
DateAt(toks, k) ==
    IF k <= Len(toks) /\ IsDateToken(toks[k]) THEN Some(toks[k])
    ELSE IF DateLabelAt(toks, k) THEN Some(toks[k + 3])
    ELSE None

H2Praia(toks, c) ==
    LET pset == { m \in (c + 1)..Len(toks) : HasChar(toks[m], "P") }
    IN  IF pset # {} /\ SameFold(toks[Min(pset)], T_PRAIA) THEN Min(pset) ELSE 0

H2Ref(toks, j) ==
    LET rset == { m \in (j + 1)..Len(toks) : SameFold(toks[m], T_REF) }
    IN  IF j > 0 /\ rset # {} THEN Min(rset) ELSE 0

H2Status(toks, r) ==
    LET tset == { m \in (r + 1)..(Len(toks) - 1) :
                    SameFold(toks[m], T_STATUS) /\ LettersPrefix(toks[m + 1]) # <<>> }
    IN  IF r > 0 /\ tset # {} THEN Min(tset) ELSE 0

\* block_pat matches with its code at token c
H2Ok(toks, c) == IsCode(toks[c], TRUE) /\ H2Status(toks, H2Ref(toks, H2Praia(toks, c))) > 0

\* The test heuristic 2 makes before it appends: if code and status
H2Emits(code, status) == code # <<>> /\ status # <<>>

\* The candidate of the match of block_pat at token c. The lazy reference group
\* is empty when no S stands between the label and 'Status:', and otherwise runs
\* to the last S before it; the date is captured only right behind that group
H2Cand(toks, c, laudo_to) ==
    LET j    == H2Praia(toks, c)
        r    == H2Ref(toks, j)
        t    == H2Status(toks, r)
        sset == { m \in (r + 1)..(t - 1) : HasChar(toks[m], "S") }
        b    == Max(sset)
        last == Max({ i \in DOMAIN toks[b] : UpperChar(toks[b][i]) = "S" })
        ref  == IF sset = {} THEN <<>>
                ELSE Strip(JoinSp(SubSeq(toks, r + 1, b - 1) \o <<SubSeq(toks[b], 1, last)>>),
                           FieldStrip)
        date == IF sset = {} THEN DateAt(toks, r + 1)
                ELSE IF last = Len(toks[b]) THEN DateAt(toks, b + 1)
                ELSE None
        code   == Upper(toks[c])
        status == normalize_status_text(Some(LettersPrefix(toks[t + 1])))
    IN  IF H2Emits(code, status)
        THEN <<Row(code, Strip(JoinSp(SubSeq(toks, j + 1, r - 1)), FieldStrip), ref,
                   status, PyOr(PyOr(date, laudo_to), Some(<<>>))[1])>>
        ELSE <<>>

RECURSIVE H2From(_, _, _)
\* block_pat.finditer from token k on
H2From(toks, k, laudo_to) ==
    LET cs == { c \in k..Len(toks) : H2Ok(toks, c) }
    IN  IF cs = {} THEN <<>>
        ELSE LET c == Min(cs)
                 t == H2Status(toks, H2Ref(toks, H2Praia(toks, c)))
             IN  H2Cand(toks, c, laudo_to) \o H2From(toks, t + 2, laudo_to)

Heuristic2(toks) == H2From(toks, 1, LaudoTo(toks))

\* The bound of the gap .{0,80}? ahead of the status of row_pat
RowGap == 80

\* The words of row_pat's status group
H3StatusWords == { UNFIT, IMPROPRIO, FIT, PROPRIO }

\* A token of the class of row_pat's beach group (the space between tokens is of it)
InClass(t) == \A k \in DOMAIN t : IsLetter(t[k]) \/ t[k] \in {"'", "-"}

ClassPrefix(t) ==
    LET non == { k \in DOMAIN t : ~(IsLetter(t[k]) \/ t[k] \in {"'", "-"}) }
    IN  IF non = {} THEN t ELSE SubSeq(t, 1, Min(non) - 1)

RECURSIVE Chars(_, _, _)
\* The characters from the start of token a to the start of token b
Chars(toks, a, b) == IF a >= b THEN 0 ELSE Len(toks[a]) + 1 + Chars(toks, a + 1, b)

\* The first status word at token a or later, if the gap to it is in the bound
H3Status(toks, a, lead) ==
    LET sset == { m \in a..Len(toks) : Upper(toks[m]) \in H3StatusWords }
    IN  IF sset # {} /\ lead + Chars(toks, a, Min(sset)) <= RowGap THEN Min(sset) ELSE 0

\* The rest of row_pat behind the label at token r, with the reference group
\* ending at token q (q = r: the group is the colon of the label)
H3Tail(toks, r, q) ==
    LET cap == IF DateLabelAt(toks, q + 1) THEN H3Status(toks, q + 5, 1) ELSE 0
        non == H3Status(toks, q + 1, 0)
    IN  IF cap > 0 THEN [q |-> q, date |-> Some(toks[q + 4]), s |-> cap]
        ELSE [q |-> q, date |-> None, s |-> non]

H3Rest(toks, r) ==
    LET qs == { q \in (r + 1)..(Len(toks) - 1) : H3Tail(toks, r, q).s > 0 }
    IN  IF qs # {} THEN H3Tail(toks, r, Min(qs)) ELSE H3Tail(toks, r, r)

\* The label row_pat matches for the code at token c (0: no match). The beach
\* group is greedy: when it runs into the first label it is tried first with a
\* later label
H3Label(toks, c) ==
    LET labels == { m \in (c + 1)..Len(toks) : SameFold(toks[m], T_REF) }
        ok     == { m \in labels : H3Rest(toks, m).s > 0 }
        r1     == Min(labels)
        inside == \A m \in (c + 1)..(r1 - 1) : InClass(toks[m])
    IN  IF ok = {} THEN 0
        ELSE IF inside /\ ok \ {r1} # {} THEN Min(ok \ {r1})
        ELSE Min(ok)

H3Ok(toks, c) == IsCode(toks[c], TRUE) /\ H3Label(toks, c) > 0

Blank == {" "}

H3Beach(toks, c, r) ==
    LET labels == { m \in (c + 1)..Len(toks) : SameFold(toks[m], T_REF) }
        r1     == Min(labels)
        m      == Min({ k \in (c + 1)..Len(toks) : ~InClass(toks[k]) })
    IN  IF m = r1 /\ r = r1 THEN JoinSp(SubSeq(toks, c + 1, r1 - 1))
        ELSE Strip(JoinSp(SubSeq(toks, c + 1, m - 1) \o <<ClassPrefix(toks[m])>>), Blank)

H3Cand(toks, c, laudo_to) ==
    LET r    == H3Label(toks, c)
        rest == H3Rest(toks, r)
        ref  == IF rest.q = r THEN <<":">> ELSE JoinSp(SubSeq(toks, r + 1, rest.q))
    IN  <<Row(Upper(toks[c]), H3Beach(toks, c, r), ref,
              normalize_status_text(Some(toks[rest.s])),
              PyOr(PyOr(rest.date, laudo_to), Some(<<>>))[1])>>

RECURSIVE H3From(_, _, _)
\* row_pat.finditer from token k on
H3From(toks, k, laudo_to) ==
    LET cs == { c \in k..Len(toks) : H3Ok(toks, c) }
    IN  IF cs = {} THEN <<>>
        ELSE LET c == Min(cs)
             IN  H3Cand(toks, c, laudo_to)
                 \o H3From(toks, H3Rest(toks, H3Label(toks, c)).s + 1, laudo_to)

Heuristic3(toks) == H3From(toks, 1, LaudoTo(toks))

\* The fallback run whatever the list holds
H3Gate_always(res) == TRUE

\* The gate of the fallback: if not results
H3Gate(res) == res = <<>>

\* The size of the window behind a code that history mining scans
WindowLen == 300

\* The dash-like characters of hist_pair
\* with U+2013 (en dash) and U+2014 (em dash), which a TLA+ string cannot hold
Dashes == { <<"-">>, <<"U+2013">>, <<"U+2014">> }

\* The length of the match of (PR[ÓO]PRIO|IMPR[ÓO]PRIO) at the start of a token, or 0
StatusPrefixLen(t) ==
    IF Len(t) >= 7 /\ SubSeq(Upper(t), 1, 7) \in {FIT, PROPRIO} THEN 7
    ELSE IF Len(t) >= 9 /\ SubSeq(Upper(t), 1, 9) \in {UNFIT, IMPROPRIO} THEN 9
    ELSE 0

\* hist_pair matches at token m: a date, a dash, a status
PairAt(toks, m) ==
    /\ m + 2 <= Len(toks)
    /\ IsDateToken(toks[m])
    /\ toks[m + 1] \in Dashes
    /\ StatusPrefixLen(toks[m + 2]) > 0

\* The token of the first occurrence of the code in the text (0: none):
\* re.search(re.escape(code), norm), a search that keeps the case
FindCode(code, toks) ==
    LET hit == { k \in DOMAIN toks : Contains(code, toks[k]) }
    IN  IF hit = {} THEN 0 ELSE Min(hit)

\* The end of the first occurrence of code in the token t
MatchEnd(code, t) ==
    Min({ i \in 0..(Len(t) - Len(code)) : SubSeq(t, i + 1, i + Len(code)) = code })
    + Len(code)

RECURSIVE PairsFrom(_, _, _, _)
\* hist_pair.finditer(window): the pairs that end within the window, which
\* begins lead characters ahead of the end of token k0
PairsFrom(toks, k0, lead, m) ==
    IF m > Len(toks) THEN <<>>
    ELSE IF /\ PairAt(toks, m)
            /\ lead + 1 + Chars(toks, k0 + 1, m + 2) + StatusPrefixLen(toks[m + 2]) <= WindowLen
         THEN <<[date |-> toks[m],
                 status |-> SubSeq(toks[m + 2], 1, StatusPrefixLen(toks[m + 2]))]>>
              \o PairsFrom(toks, k0, lead, m + 3)
         ELSE PairsFrom(toks, k0, lead, m + 1)

\* The body of the mining loop for one item of results: the candidates it appends
MineItem(item, toks) ==
    LET k == FindCode(item.code, toks)
        h == PairsFrom(toks, k, Len(toks[k]) - MatchEnd(item.code, toks[k]), k + 1)
    IN  IF k = 0 THEN <<>>
        ELSE [n \in DOMAIN h |->
                Row(item.code, item.beach, item.reference,
                    normalize_status_text(Some(h[n].status)), parse_date_br(h[n].date))]

(***************************************************************************)
(* Spec: one document through parse_pdf_text, step by step, and through    *)
(* consolidate                                                             *)
(***************************************************************************)
\* The number of segments a text is made of, at most
MaxSegs == 4

\* The length of results up to which the mining loop is followed
MaxResults == 6

Segments ==
    { <<P1>>,
      <<LOW_P1>>,
      <<T_PRAIA, W_FAROL, T_REF>>,
      <<T_DATA, T_DA, T_COLETA, D_3102>>,
      <<T_STATUS, W_BOA>>,
      <<FIT>>,
      <<D_1203, T_DASH, W_improprio>>,
      <<T_PERIODO, T_DE, D_0109, T_A, D_0109>> }

Docs == { Flatten(ss) : ss \in UNION { [1..n -> Segments] : n \in 0..MaxSegs } }

Tags(n, tag) == [k \in 1..n |-> tag]

Init ==
    /\ pc = "h1"
    /\ text \in Docs
    /\ results = <<>> /\ origin = <<>> /\ ran = <<>> /\ idx = 0 /\ anchors = 0
    /\ ConsIdle /\ RunIdle /\ GeoIdle /\ StatusIdle

RunH1 ==
    /\ pc = "h1"
    /\ results' = Heuristic1(text)
    /\ origin' = Tags(Len(results'), 1)
    /\ ran' = Append(ran, 1)
    /\ pc' = "h2"
    /\ UNCHANGED <<text, idx, anchors, consVars, runVars, geoVars, statusVars>>

RunH2 ==
    /\ pc = "h2"
    /\ results' = results \o Heuristic2(text)
    /\ origin' = origin \o Tags(Len(results') - Len(results), 2)
    /\ ran' = Append(ran, 2)
    /\ pc' = "h3"
    /\ UNCHANGED <<text, idx, anchors, consVars, runVars, geoVars, statusVars>>

RunH3 ==
    /\ pc = "h3"
    /\ H3Gate(results)
    /\ results' = results \o Heuristic3(text)
    /\ origin' = origin \o Tags(Len(results') - Len(results), 3)
    /\ ran' = Append(ran, 3)
    /\ anchors' = Len(results')
    /\ idx' = 0
    /\ pc' = "mine"
    /\ UNCHANGED <<text, consVars, runVars, geoVars, statusVars>>

SkipH3 ==
    /\ pc = "h3"
    /\ ~H3Gate(results)
    /\ anchors' = Len(results)
    /\ idx' = 0
    /\ pc' = "mine"
    /\ UNCHANGED <<text, results, origin, ran, consVars, runVars, geoVars, statusVars>>

\* One turn of the loop over enumerate(results), which appends to results
MineStep ==
    /\ pc = "mine"
    /\ idx < Len(results)
    /\ Len(results) <= MaxResults
    /\ results' = results \o MineItem(results[idx + 1], text)
    /\ origin' = origin \o Tags(Len(results') - Len(results), 4)
    /\ idx' = idx + 1
    /\ UNCHANGED <<pc, text, ran, anchors, consVars, runVars, geoVars, statusVars>>

\* The loop has gone through the list: parse_pdf_text returns results
MineReturn ==
    /\ pc = "mine"
    /\ idx = Len(results)
    /\ pc' = "done"
    /\ UNCHANGED <<parseVars, consVars, runVars, geoVars, statusVars>>

ConsolidateParsed ==
    /\ pc = "done"
    /\ rows' = results
    /\ agg' = consolidate(results, source_url)
    /\ pc' = "consolidated"
    /\ UNCHANGED <<parseVars, source_url, agg2, points, points2, runVars, geoVars,
                   statusVars>>

Next == RunH1 \/ RunH2 \/ RunH3 \/ SkipH3 \/ MineStep \/ MineReturn \/ ConsolidateParsed

Spec == Init /\ [][Next]_vars

\* The matches of hist_pair in the whole text
NPairs(toks) == Cardinality({ m \in DOMAIN toks : PairAt(toks, m) })

\* C1 as claimed: the mining loop takes only the candidates of heuristics 1-3 as
\* anchors, so it ends with at most anchors x pairs mined candidates
C1_Claim ==
    pc = "mine" =>
        /\ idx <= anchors
        /\ Len(results) <= anchors + anchors * NPairs(text)

\* The codes whose block holds a standalone status word
BlocksWithStatus(toks) ==
    { k \in DOMAIN toks : IsCode(toks[k], FALSE) /\ FindStatus(BlockAt(toks, k)) # None }

\* C6 as claimed: heuristic 1 emits one candidate per block in which it found a
\* status word, and none for a block without one
C6_Claim == pc = "h2" => Len(results) = Cardinality(BlocksWithStatus(text))

\* C7: heuristics 1 and 2 both run, in this order, heuristic 3 runs and
\* contributes only when they left the list empty, and the list holds the
\* candidates of heuristic 1, then 2, then 3, then the mined ones
C7_CascadeOrder ==
    /\ Len(origin) = Len(results)
    /\ \A j, k \in DOMAIN origin : j < k => origin[j] <= origin[k]
    /\ (\E k \in DOMAIN origin : origin[k] = 3) =>
           \A k \in DOMAIN origin : origin[k] \notin {1, 2}
    /\ pc \in {"mine", "done", "consolidated"} =>
           /\ SubSeq(ran, 1, 2) = <<1, 2>>
           /\ (ran = <<1, 2, 3>>) <=> (\A k \in DOMAIN origin : origin[k] \notin {1, 2})
           /\ ran \in {<<1, 2>>, <<1, 2, 3>>}

\* parse_pdf_text returned a list that heuristic 3 alone filled
C7_Witness ==
    /\ pc = "done"
    /\ ran = <<1, 2, 3>>
    /\ results # <<>>
    /\ \A k \in DOMAIN origin : origin[k] = 3

CanonicalStatus == { FIT, UNFIT, UNKNOWN }

\* C8 as claimed: every sample of a history built from a parsed document has a
\* canonical status and an ISO date
C8_Claim ==
    pc = "consolidated" =>
        \A c \in DOMAIN agg : \A k \in DOMAIN agg[c].history :
            /\ agg[c].history[k].status \in CanonicalStatus
            /\ IsISODate(agg[c].history[k].date)

(***************************************************************************)
(* load_geocodes and attach_geocodes                                       *)
(***************************************************************************)
Quote == "\""

\* The number of double quotes in s
CountQuotes(s) == Cardinality({ k \in DOMAIN s : s[k] = Quote })

\* The commas at which the pattern of re.split matches: those followed, up to
\* the end of the line, by an even number of double quotes
SplitPoints(s) ==
    { k \in DOMAIN s : s[k] = "," /\ CountQuotes(SubSeq(s, k + 1, Len(s))) % 2 = 0 }

RECURSIVE SplitCsvFrom(_, _)
SplitCsvFrom(s, start) ==
    LET cut == { k \in SplitPoints(s) : k >= start }
    IN  IF cut = {} THEN <<SubSeq(s, start, Len(s))>>
        ELSE <<SubSeq(s, start, Min(cut) - 1)>> \o SplitCsvFrom(s, Min(cut) + 1)

\* parts of a line: the split of line.strip(), each part stripped of blanks and
\* then of double quotes
GeoParts(line) ==
    LET raw == SplitCsvFrom(Strip(line, Blank), 1)
    IN  [k \in DOMAIN raw |-> Strip(Strip(raw[k], Blank), {Quote})]

\* (parts + ['', ''])[:6]
PadSix(parts) ==
    LET padded == parts \o <<<<>>, <<>>>>
    IN  SubSeq(padded, 1, IF Len(padded) < 6 THEN Len(padded) ELSE 6)

\* The unpacking into six names raises ValueError on fewer than six values
UnpackRaises(line) == Len(PadSix(GeoParts(line))) < 6

\* A line the loop skips: if not line.strip()
BlankLine(line) == Strip(line, Blank) = <<>>

\* The body of the loop of load_geocodes for one line that unpacks
LoadLine(g, line) ==
    IF BlankLine(line) THEN g
    ELSE LET p    == PadSix(GeoParts(line))
             code == Upper(Strip(p[1], Blank))
         IN  [c \in DOMAIN g \cup {code} |->
                IF c = code
                THEN [beach |-> p[2], reference |-> p[3], city |-> p[4],
                      lat |-> p[5], lng |-> p[6]]
                ELSE g[c]]

RECURSIVE LoadFrom(_, _)
LoadFrom(g, ls) == IF ls = <<>> THEN g ELSE LoadFrom(LoadLine(g, Head(ls)), Tail(ls))

\* The lines behind the header, which f.readline() consumes
DataLines(file) == IF file = <<>> THEN <<>> ELSE Tail(file)

\* load_geocodes raises: a line that is not blank does not unpack
LoadRaises(file) ==
    \E k \in DOMAIN DataLines(file) :
        ~BlankLine(DataLines(file)[k]) /\ UnpackRaises(DataLines(file)[k])

\* load_geocodes on a file given as its lines (no line: no file, or an empty one),
\* when it does not raise
load_geocodes(file) == LoadFrom(EmptyDict, DataLines(file))

\* The unsigned part of a decimal numeral
Unsigned(s) == IF s # <<>> /\ s[1] \in {"-", "+"} THEN Tail(s) ELSE s

\* float(s) succeeds, for a string of signs, digits, points and letters: an
\* optional sign and digits with at most one point among them
FloatOk(s) ==
    LET p == Split(Unsigned(s), ".")
    IN  /\ Len(p) \in {1, 2}
        /\ \A k \in DOMAIN p : AllDigits(p[k])
        /\ \E k \in DOMAIN p : p[k] # <<>>

\* float(s) as the pair of a mantissa and a number of decimals: -2.5 is <<-25, 1>>
Float(s) ==
    LET p    == Split(Unsigned(s), ".")
        frac == IF Len(p) = 2 THEN p[2] ELSE <<>>
        m    == Num(p[1] \o frac)
    IN  <<IF s[1] = "-" THEN 0 - m ELSE m, Len(frac)>>

\* A merge that fills the texts of a station only where it has none
AttachOne_fill(s, g) ==
    [s EXCEPT
       !.city = IF g.city # <<>> /\ ~Truthy(@) THEN Some(g.city) ELSE @,
       !.beach = IF g.beach # <<>> /\ ~Truthy(@) THEN Some(g.beach) ELSE @,
       !.reference = IF g.reference # <<>> /\ ~Truthy(@) THEN Some(g.reference) ELSE @]

\* The body of the loop of attach_geocodes for one station: the texts of the row
\* replace the station's when they are not empty, and s.lat is assigned before
\* float of lng is evaluated
AttachOne(s, g) ==
    LET s1 == [s EXCEPT
                 !.city = IF g.city # <<>> THEN Some(g.city) ELSE @,
                 !.beach = IF g.beach # <<>> THEN Some(g.beach) ELSE @,
                 !.reference = IF g.reference # <<>> THEN Some(g.reference) ELSE @]
    IN  IF ~FloatOk(g.lat) THEN s1
        ELSE IF ~FloatOk(g.lng) THEN [s1 EXCEPT !.lat = Some(Float(g.lat))]
        ELSE [s1 EXCEPT !.lat = Some(Float(g.lat)), !.lng = Some(Float(g.lng))]

attach_geocodes(a, g) ==
    [c \in DOMAIN a |-> IF c \in DOMAIN g THEN AttachOne(a[c], g[c]) ELSE a[c]]

(***************************************************************************)
(* SpecGeo: a geocode file through load_geocodes, and the table merged     *)
(* into consolidated stations and projected                                *)
(***************************************************************************)
\* The number of data lines of a geocode file, at most
MaxLines == 2

RECURSIVE Csv(_)
\* The cells joined by commas
Csv(cells) ==
    IF Len(cells) = 1 THEN cells[1] ELSE cells[1] \o <<",">> \o Csv(Tail(cells))

\* 'code,beach,reference,city,lat,lng'
GeoHeader ==
    Csv(<< <<"c", "o", "d", "e">>, <<"b", "e", "a", "c", "h">>,
           <<"r", "e", "f", "e", "r", "e", "n", "c", "e">>, <<"c", "i", "t", "y">>,
           <<"l", "a", "t">>, <<"l", "n", "g">> >>)

\* '-2.5'
LAT_OK == <<"-", "2", ".", "5">>

\* '-44.3'
LNG_OK == <<"-", "4", "4", ".", "3">>

NOT_A_NUMBER == <<"x">>

CITY_C == <<"C">>

\* '"A,B"': a quoted cell with a comma in it
QUOTED_AB == <<Quote, "A", ",", "B", Quote>>

GeoDataLines ==
    { Csv(<<c, BEACH_B, <<>>, <<>>, la, ln>>) :
        c \in {P1, <<"p", "2">>}, la \in {<<>>, LAT_OK, NOT_A_NUMBER}, ln \in {<<>>, LNG_OK} }
    \cup
    { Csv(<<P1, b, rc[1], rc[2], LAT_OK, LNG_OK>>) :
        b \in {<<>>, QUOTED_AB}, rc \in { <<<<>>, <<>>>>, <<REF_R, CITY_C>> } }
    \cup
    { <<" ">>,
      Csv(<<P1, BEACH_B, REF_R>>),
      Csv(<<P1, BEACH_B, REF_R, CITY_C>>),
      Csv(<<P2, BEACH_B, REF_R, CITY_C, LAT_OK>>),
      Csv(<<P1, BEACH_B, REF_R, CITY_C, LAT_OK, LNG_OK, <<"x">>>>) }

GeoFiles ==
    { <<>> } \cup
    { <<GeoHeader>> \o ls : ls \in UNION { [1..n -> GeoDataLines] : n \in 0..MaxLines } }

\* The candidate lists the stations are consolidated from
GeoCandidates ==
    { <<>>,
      <<Row(P1, BEACH_A, <<>>, FIT, D_0109)>>,
      <<Row(P1, BEACH_A, <<>>, FIT, D_0109), Row(P2, <<>>, REF_R, UNFIT, D_1203)>> }

InitGeo ==
    /\ pc = "start"
    /\ ParseIdle /\ RunIdle /\ StatusIdle
    /\ source_url = URL1 /\ agg = EmptyDict /\ agg2 = EmptyDict
    /\ points = <<>> /\ points2 = <<>>
    /\ rows \in GeoCandidates
    /\ lines \in GeoFiles
    /\ geos = EmptyDict

GeoConsolidate ==
    /\ pc = "start"
    /\ agg' = consolidate(rows, source_url)
    /\ pc' = "aggregated"
    /\ UNCHANGED <<parseVars, rows, source_url, agg2, points, points2, runVars, geoVars,
                   statusVars>>

LoadGeocodes ==
    /\ pc = "aggregated"
    /\ ~LoadRaises(lines)
    /\ geos' = load_geocodes(lines)
    /\ pc' = "loaded"
    /\ UNCHANGED <<parseVars, consVars, runVars, lines, statusVars>>

\* The ValueError of the unpacking leaves load_geocodes and run
LoadGeocodesRaises ==
    /\ pc = "aggregated"
    /\ LoadRaises(lines)
    /\ pc' = "raised"
    /\ UNCHANGED <<parseVars, consVars, runVars, geoVars, statusVars>>

\* attach_geocodes changes the stations in place: agg2 is the aggregate after it
AttachGeocodes ==
    /\ pc = "loaded"
    /\ agg2' = attach_geocodes(agg, geos)
    /\ pc' = "attached"
    /\ UNCHANGED <<parseVars, rows, source_url, agg, points, points2, runVars, geoVars,
                   statusVars>>

ProjectGeo ==
    /\ pc = "attached"
    /\ agg2 # EmptyDict
    /\ points' \in to_points_json(agg2)
    /\ pc' = "projected"
    /\ UNCHANGED <<parseVars, rows, source_url, agg, agg2, points2, runVars, geoVars,
                   statusVars>>

NextGeo ==
    GeoConsolidate \/ LoadGeocodes \/ LoadGeocodesRaises \/ AttachGeocodes \/ ProjectGeo

SpecGeo == InitGeo /\ [][NextGeo]_vars

\* The geocode row of station c gives no pair of coordinates: it is absent, or its
\* lat or its lng is missing or not a number
NoCoordinates(c) ==
    c \notin DOMAIN geos \/ ~FloatOk(geos[c].lat) \/ ~FloatOk(geos[c].lng)

\* C9 as claimed: a station whose geocode row is absent or has a lat or lng that is
\* missing or not a number keeps both the lat and the lng it had before the merge
C9_Claim ==
    pc = "attached" =>
        \A c \in DOMAIN agg :
            NoCoordinates(c) => agg2[c].lat = agg[c].lat /\ agg2[c].lng = agg[c].lng

\* A data line of six columns
SixColumns(line) == ~BlankLine(line) /\ Len(GeoParts(line)) = 6

\* C10 as claimed: load_geocodes never raises, and its table is the one built from
\* the lines of six columns alone
C10_Claim ==
    /\ pc # "raised"
    /\ pc = "loaded" =>
           geos = LoadFrom(EmptyDict, SelectSeq(DataLines(lines), SixColumns))

(***************************************************************************)
(* SpecRun: run, from the list of documents to the projected points        *)
(***************************************************************************)
\* The number of documents of the index, at most
MaxItems == 2

\* The list parse_pdf_text has before the mining loop: heuristics 1 and 2, and
\* heuristic 3 when they left it empty
Cascade(toks) ==
    LET r12 == Heuristic1(toks) \o Heuristic2(toks)
    IN  IF H3Gate(r12) THEN r12 \o Heuristic3(toks) ELSE r12

\* The mining loop appends for some item of the list res, and so never ends: what
\* it appends has the code of the item, and is an item of the list in its turn
MiningDiverges(res, toks) == \E k \in DOMAIN res : MineItem(res[k], toks) # <<>>

LAUDOS_URL == <<"s", "e", "m", "a">>

\* 'file://f'
FILE_URL == <<"f", "i", "l", "e", ":", "/", "/", "f">>

WEB_URL == <<"w", "e", "b">>

DOT_PDF == <<".", "p", "d", "f">>

\* The address of the k-th link of the index when it is a page
PageUrl(k) == <<"u", Digits[k + 1]>>

\* The address of the k-th link of the index when it is a PDF
PdfUrl(k) == PageUrl(k) \o DOT_PDF

\* The address of the PDF found in the k-th page
ResolvedUrl(k) == <<"r", Digits[k + 1]>> \o DOT_PDF

\* url.startswith('file://')
IsFileUrl(url) == Len(url) >= 7 /\ SubSeq(url, 1, 7) = SubSeq(FILE_URL, 1, 7)

\* url.lower().endswith('.pdf')
IsPdfUrl(url) == Len(url) >= 4 /\ SubSeq(Upper(url), Len(url) - 3, Len(url)) = Upper(DOT_PDF)

\* The page texts of the documents
ItemTexts ==
    { <<>>, <<P1, FIT>>, <<P2, T_STATUS, W_BOA>>, <<P1, D_1203, T_DASH, W_improprio>> }

\* A document: its address, the PDF resolve_pdf_from_page finds in it, whether
\* download_pdf and pdfplumber succeed on it, and its page text
Item(url, resolved, ok, txt) == [url |-> url, resolved |-> resolved, ok |-> ok, text |-> txt]

\* The documents the k-th link of the index can be
ItemsAt(k) ==
    { Item(PageUrl(k), None, FALSE, <<>>),
      Item(PageUrl(k), Some(ResolvedUrl(k)), FALSE, <<>>),
      Item(PdfUrl(k), None, FALSE, <<>>) }
    \cup { Item(PageUrl(k), Some(ResolvedUrl(k)), TRUE, t) : t \in ItemTexts }
    \cup { Item(PdfUrl(k), None, TRUE, t) : t \in ItemTexts }

\* The lists fetch_laudo_index returns: links of distinct addresses
IndexItems ==
    UNION { { its \in [1..n -> UNION { ItemsAt(k) : k \in 1..n }] :
                \A k \in 1..n : its[k] \in ItemsAt(k) } : n \in 0..MaxItems }

\* The list of run when from_file is given
FileItems == { <<Item(FILE_URL, None, ok, t)>> : ok \in BOOLEAN, t \in ItemTexts }

\* The geocode files of a run
RunGeoFiles ==
    { <<>>,
      <<GeoHeader, Csv(<<P1, BEACH_B, <<>>, <<>>, LAT_OK, LNG_OK>>)>>,
      <<GeoHeader, Csv(<<P1, BEACH_B, REF_R>>)>> }

InitRun ==
    /\ pc = "loop"
    /\ ParseIdle /\ ConsIdle /\ StatusIdle
    /\ from_file \in BOOLEAN
    /\ IF from_file
       THEN items \in FileItems /\ web_source_url \in {None, Some(WEB_URL)}
       ELSE items \in IndexItems /\ web_source_url = None
    /\ all_rows = <<>>
    /\ item_k = 0
    /\ lines \in RunGeoFiles
    /\ geos = EmptyDict

\* The item the loop of run is at
It == items[item_k + 1]

\* The rows of a document with the address they are tagged with
Tagged(rs, url) ==
    [k \in DOMAIN rs |->
        [code |-> rs[k].code, beach |-> rs[k].beach, reference |-> rs[k].reference,
         status |-> rs[k].status, date |-> rs[k].date, source_url |-> url]]

\* The address run downloads the item from
Resolved(it) == IF IsPdfUrl(it.url) THEN Some(it.url) ELSE it.resolved

InLoop == pc = "loop" /\ item_k < Len(items)

\* A page in which resolve_pdf_from_page finds no PDF is skipped
RunSkipPage ==
    /\ InLoop
    /\ ~IsFileUrl(It.url)
    /\ Resolved(It) = None
    /\ item_k' = item_k + 1
    /\ UNCHANGED <<pc, parseVars, consVars, items, all_rows, from_file, web_source_url,
                   geoVars, statusVars>>

\* download_pdf raises, or pdfplumber does: the except clauses skip the document
RunItemFails ==
    /\ InLoop
    /\ ~IsFileUrl(It.url)
    /\ Resolved(It) # None
    /\ ~It.ok
    /\ item_k' = item_k + 1
    /\ UNCHANGED <<pc, parseVars, consVars, items, all_rows, from_file, web_source_url,
                   geoVars, statusVars>>

\* The local file cannot be opened: it is parsed outside any try, and the
\* exception leaves run
RunFileRaises ==
    /\ InLoop
    /\ IsFileUrl(It.url)
    /\ ~It.ok
    /\ pc' = "raised"
    /\ UNCHANGED <<parseVars, consVars, runVars, geoVars, statusVars>>

\* parse_pdf_text on the document, up to its mining loop
RunParse ==
    /\ InLoop
    /\ IsFileUrl(It.url) \/ Resolved(It) # None
    /\ It.ok
    /\ text' = It.text
    /\ results' = Cascade(It.text)
    /\ anchors' = Len(results')
    /\ pc' = "mining"
    /\ UNCHANGED <<origin, ran, idx, consVars, runVars, geoVars, statusVars>>

\* The mining loop goes through the list without appending: parse_pdf_text returns
RunParseReturns ==
    /\ pc = "mining"
    /\ ~MiningDiverges(results, text)
    /\ pc' = "parsed"
    /\ UNCHANGED <<parseVars, consVars, runVars, geoVars, statusVars>>

\* The mining loop of parse_pdf_text does not end
RunParseHangs ==
    /\ pc = "mining"
    /\ MiningDiverges(results, text)
    /\ pc' = "hung"
    /\ UNCHANGED <<parseVars, consVars, runVars, geoVars, statusVars>>

\* The mining loop runs out of memory: the MemoryError leaves run for a local
\* file, and is caught by except Exception, which skips the document, otherwise
RunParseExhausts ==
    /\ pc = "mining"
    /\ MiningDiverges(results, text)
    /\ IF IsFileUrl(It.url)
       THEN pc' = "raised" /\ item_k' = item_k
       ELSE pc' = "loop" /\ item_k' = item_k + 1
    /\ UNCHANGED <<parseVars, consVars, items, all_rows, from_file, web_source_url,
                   geoVars, statusVars>>

\* The rows of a local file, tagged with web_source_url or url
RunFile ==
    /\ pc = "parsed"
    /\ IsFileUrl(It.url)
    /\ all_rows' = all_rows \o Tagged(results, PyOr(web_source_url, Some(It.url))[1])
    /\ item_k' = item_k + 1
    /\ pc' = "loop"
    /\ UNCHANGED <<parseVars, consVars, items, from_file, web_source_url, geoVars,
                   statusVars>>

\* The rows of a downloaded document, tagged with the address it was downloaded from
RunItemRows ==
    /\ pc = "parsed"
    /\ ~IsFileUrl(It.url)
    /\ all_rows' = all_rows \o Tagged(results, Resolved(It)[1])
    /\ item_k' = item_k + 1
    /\ pc' = "loop"
    /\ UNCHANGED <<parseVars, consVars, items, from_file, web_source_url, geoVars,
                   statusVars>>

\* The one address run passes to consolidate
RunSourceUrl ==
    IF from_file /\ Truthy(web_source_url) THEN web_source_url[1]
    ELSE IF items # <<>> THEN items[1].url ELSE LAUDOS_URL

\* Behind the loop: consolidate, load_geocodes, attach_geocodes and, when there is
\* a station, to_points_json
RunFinish ==
    /\ pc = "loop" /\ item_k = Len(items)
    /\ ~LoadRaises(lines)
    /\ source_url' = RunSourceUrl
    /\ rows' = all_rows
    /\ agg' = consolidate(all_rows, source_url')
    /\ geos' = load_geocodes(lines)
    /\ agg2' = attach_geocodes(agg', geos')
    /\ IF agg' # EmptyDict THEN points' \in to_points_json(agg2') ELSE points' = points
    /\ pc' = "finished"
    /\ UNCHANGED <<parseVars, points2, runVars, lines, statusVars>>

\* Behind the loop, with a geocode file load_geocodes raises on
RunFinishRaises ==
    /\ pc = "loop" /\ item_k = Len(items)
    /\ LoadRaises(lines)
    /\ source_url' = RunSourceUrl
    /\ rows' = all_rows
    /\ agg' = consolidate(all_rows, source_url')
    /\ pc' = "raised"
    /\ UNCHANGED <<parseVars, agg2, points, points2, runVars, geoVars, statusVars>>

NextRun ==
    \/ RunSkipPage \/ RunItemFails \/ RunFileRaises \/ RunParse \/ RunParseReturns
    \/ RunParseHangs \/ RunParseExhausts \/ RunFile \/ RunItemRows \/ RunFinish
    \/ RunFinishRaises

SpecRun == InitRun /\ [][NextRun]_vars

\* The addresses that name a document: its link, the PDF found in its page, and
\* the web address given for a local file
ItemUrls(it) ==
    {it.url}
    \cup (IF it.resolved = None THEN {} ELSE {it.resolved[1]})
    \cup (IF IsFileUrl(it.url) /\ web_source_url # None THEN {web_source_url[1]} ELSE {})

\* The first row of all_rows for the station of code c
FirstRowOf(c) == Min({ k \in DOMAIN all_rows : Upper(all_rows[k].code) = c })

\* C4 as claimed: after a run, the source_laudo of each station is an address of
\* the document that gave the first row for that station
C4_Claim ==
    pc = "finished" =>
        \A c \in DOMAIN agg2 :
            \E k \in DOMAIN items :
                /\ all_rows[FirstRowOf(c)].source_url \in ItemUrls(items[k])
                /\ agg2[c].source_laudo \in { Some(u) : u \in ItemUrls(items[k]) }

\* The field of a station after the merge with the field of its geocode row: the
\* text of the row when it is not empty, the station's own otherwise
MergedText(own, geo) == IF geo # <<>> THEN Some(geo) ELSE own

\* C11: for a station of the geocode table, each of beach, reference and city is
\* the text of the geocode row when that is not empty, whatever aggregation had
\* set, and is unchanged when the text of the row is empty
C11_TextFields ==
    pc = "attached" =>
        \A c \in DOMAIN agg \cap DOMAIN geos :
            /\ agg2[c].beach = MergedText(agg[c].beach, geos[c].beach)
            /\ agg2[c].reference = MergedText(agg[c].reference, geos[c].reference)
            /\ agg2[c].city = MergedText(agg[c].city, geos[c].city)

\* The merge replaced the beach aggregation had set for P1 and kept the reference
\* of P1, for which the row has no text
C11_Witness ==
    /\ pc = "attached"
    /\ P1 \in DOMAIN agg /\ P1 \in DOMAIN geos
    /\ agg[P1].beach = Some(BEACH_A) /\ geos[P1].beach = BEACH_B
    /\ agg2[P1].beach = Some(BEACH_B)
    /\ geos[P1].reference = <<>> /\ agg2[P1].reference = agg[P1].reference

(***************************************************************************)
(* SpecOrder: a candidate list through consolidate, and the same candidates *)
(* in another order                                                        *)
(***************************************************************************)
\* The number of candidates of a list, at most
MaxOrderRows == 3

\* Candidates of P1 (one under the code p1) and P2 with different beaches,
\* references and samples, one without a sample and one without a code
OrderRows ==
    { Row(P1, <<>>, <<>>, FIT, D_0109),
      Row(P1, BEACH_A, <<>>, UNFIT, D_1203),
      Row(<<"p", "1">>, BEACH_B, REF_R, FIT, D_1203),
      Row(P2, <<>>, REF_R, FIT, D_0109),
      Row(P2, BEACH_A, <<>>, <<>>, D_0109),
      Row(<<>>, BEACH_A, <<>>, FIT, D_0109) }

\* The permutations of 1..n
Perms(n) == { p \in [1..n -> 1..n] : \A i, j \in 1..n : i # j => p[i] # p[j] }

\* The list rs in the order p
Permuted(rs, p) == [k \in DOMAIN rs |-> rs[p[k]]]

InitOrder ==
    /\ pc = "start"
    /\ ParseIdle /\ RunIdle /\ GeoIdle /\ StatusIdle
    /\ source_url = URL1 /\ agg = EmptyDict /\ agg2 = EmptyDict
    /\ points = <<>> /\ points2 = <<>>
    /\ rows \in UNION { [1..n -> OrderRows] : n \in 0..MaxOrderRows }

OrderConsolidate ==
    /\ pc = "start"
    /\ agg' = consolidate(rows, source_url)
    /\ pc' = "consolidated"
    /\ UNCHANGED <<parseVars, rows, source_url, agg2, points, points2, runVars, geoVars,
                   statusVars>>

\* consolidate on the same candidates in some other order
OrderPermuted ==
    /\ pc = "consolidated"
    /\ \E p \in Perms(Len(rows)) : agg2' = consolidate(Permuted(rows, p), source_url)
    /\ pc' = "permuted"
    /\ UNCHANGED <<parseVars, rows, source_url, agg, points, points2, runVars, geoVars,
                   statusVars>>

NextOrder == OrderConsolidate \/ OrderPermuted

SpecOrder == InitOrder /\ [][NextOrder]_vars

\* The candidates of rs for the station c that have a beach
WithBeach(rs, c) == { k \in DOMAIN rs : Upper(rs[k].code) = c /\ rs[k].beach # <<>> }

\* The candidates of rs for the station c that have a reference
WithReference(rs, c) == { k \in DOMAIN rs : Upper(rs[k].code) = c /\ rs[k].reference # <<>> }

\* C12: the beach of a station is the beach of the first candidate of its code
\* that has one, and is unset or empty when none has; likewise the reference; and
\* a text set after some prefix of the list is the text at the end of the list
C12_FirstNonEmptyWins ==
    pc = "consolidated" =>
        /\ \A c \in DOMAIN agg :
             /\ IF WithBeach(rows, c) = {}
                THEN ~Truthy(agg[c].beach)
                ELSE agg[c].beach = Some(rows[Min(WithBeach(rows, c))].beach)
             /\ IF WithReference(rows, c) = {}
                THEN ~Truthy(agg[c].reference)
                ELSE agg[c].reference = Some(rows[Min(WithReference(rows, c))].reference)
        /\ \A n \in 0..Len(rows) :
             \A c \in DOMAIN consolidate(SubSeq(rows, 1, n), source_url) :
                LET s == consolidate(SubSeq(rows, 1, n), source_url)[c]
                IN  /\ Truthy(s.beach) => agg[c].beach = s.beach
                    /\ Truthy(s.reference) => agg[c].reference = s.reference

\* Three candidates of P1: the first without a beach, then beach A, then beach B
\* under the code p1, and the station has beach A
C12_Witness ==
    /\ pc = "consolidated"
    /\ Len(rows) = 3
    /\ \A k \in 1..3 : Upper(rows[k].code) = P1
    /\ rows[1].beach = <<>> /\ rows[2].beach = BEACH_A /\ rows[3].beach = BEACH_B
    /\ agg[P1].beach = Some(BEACH_A)

\* C13: consolidate on any permutation of the candidate list yields the same
\* station codes and, for every station, the same set of (date, status) pairs
C13_OrderIndependentHistory ==
    pc = "permuted" =>
        /\ DOMAIN agg2 = DOMAIN agg
        /\ \A c \in DOMAIN agg : HistSet(agg2[c]) = HistSet(agg[c])

\* A permutation gave station P1 another beach and its samples in another order,
\* and yet the same set of pairs
C13_Witness ==
    /\ pc = "permuted"
    /\ P1 \in DOMAIN agg
    /\ agg2[P1].beach # agg[P1].beach
    /\ agg2[P1].history # agg[P1].history
    /\ Cardinality(HistSet(agg[P1])) >= 2
    /\ HistSet(agg2[P1]) = HistSet(agg[P1])

(***************************************************************************)
(* SpecProject: an aggregate through to_points_json, twice                 *)
(***************************************************************************)
\* The number of candidates the aggregate is consolidated from, at most
MaxPointRows == 4

P10 == <<"P", "1", "0">>

\* Candidates of three stations; those of P1 have two statuses on one date,
\* another date, and no date
ProjectRows ==
    { Row(P2, <<>>, <<>>, FIT, D_0109),
      Row(P10, <<>>, <<>>, UNFIT, D_1203),
      Row(P1, <<>>, <<>>, FIT, D_0109),
      Row(P1, <<>>, <<>>, UNFIT, D_0109),
      Row(P1, <<>>, <<>>, FIT, D_1203),
      Row(P1, <<>>, <<>>, FIT, <<>>) }

InitProject ==
    /\ pc = "start"
    /\ ParseIdle /\ RunIdle /\ GeoIdle /\ StatusIdle
    /\ source_url = URL1 /\ agg = EmptyDict /\ agg2 = EmptyDict
    /\ points = <<>> /\ points2 = <<>>
    /\ rows \in UNION { [1..n -> ProjectRows] : n \in 0..MaxPointRows }

ProjectConsolidate ==
    /\ pc = "start"
    /\ agg' = consolidate(rows, source_url)
    /\ pc' = "consolidated"
    /\ UNCHANGED <<parseVars, rows, source_url, agg2, points, points2, runVars, geoVars,
                   statusVars>>

\* to_points_json on the aggregate, and again on the same aggregate (as the next
\* run of the pipeline on the same documents does)
ProjectTwice ==
    /\ pc = "consolidated"
    /\ points' \in to_points_json(agg)
    /\ points2' \in to_points_json(agg)
    /\ pc' = "projected"
    /\ UNCHANGED <<parseVars, rows, source_url, agg, agg2, runVars, geoVars, statusVars>>

NextProject == ProjectConsolidate \/ ProjectTwice

SpecProject == InitProject /\ [][NextProject]_vars

\* The (date, status) pairs of the history of an output record
PointPairs(p) == { <<p.history[k].date, p.history[k].status>> : k \in DOMAIN p.history }

\* C14: one record per station, in ascending order of the code as a string; the
\* history of a record lists the unique pairs of the station in non-decreasing
\* order of the date string; latest is its last element, or None when it is empty
C14_ProjectionShape ==
    pc = "projected" =>
        /\ Len(points) = Cardinality(DOMAIN agg)
        /\ { points[k].code : k \in DOMAIN points } = DOMAIN agg
        /\ \A k \in 1..(Len(points) - 1) : StrLess(points[k].code, points[k + 1].code)
        /\ \A k \in DOMAIN points :
             LET p == points[k]
                 h == p.history
             IN  /\ PointPairs(p) = HistSet(agg[p.code])
                 /\ Len(h) = Cardinality(HistSet(agg[p.code]))
                 /\ \A j \in 1..(Len(h) - 1) : StrLeq(h[j].date, h[j + 1].date)
                 /\ p.latest = IF h = <<>> THEN None ELSE Some(h[Len(h)])

\* Candidates given in the order P2, P10, P1, P1 come out as P1, P10, P2, and the
\* two samples of P1, given latest first, come out in the order of their dates
C14_Witness ==
    /\ pc = "projected"
    /\ Len(rows) = 4
    /\ rows[1].code = P2 /\ rows[2].code = P10 /\ rows[3].code = P1 /\ rows[4].code = P1
    /\ rows[3].date = D_0109 /\ rows[4].date = D_1203
    /\ [k \in DOMAIN points |-> points[k].code] = <<P1, P10, P2>>
    /\ Len(points[1].history) = 2
    /\ points[1].history[1].date = parse_date_br(D_1203)
    /\ points[1].latest = Some(Sample(parse_date_br(D_0109), FIT))

\* C15 as claimed: consolidate gives a raw status the value normalize_status_text
\* gives it, so the station of the candidate has one sample, with that value
C15_Claim ==
    pc = "raw_done" =>
        /\ P1 \in DOMAIN agg
        /\ Len(agg[P1].history) = 1
        /\ agg[P1].history[1].status = normalize_status_text(tok)

\* C16 as claimed: two projections of one aggregate give the same history
\* sequence and the same latest for every station
C16_Claim ==
    pc = "projected" =>
        /\ Len(points) = Len(points2)
        /\ \A k \in DOMAIN points :
             /\ points[k].history = points2[k].history
             /\ points[k].latest = points2[k].latest

====
